---------------------------- MODULE Spec2Model ----------------------------
(***************************************************************************)
(* Streaming hash objects of Chocobo1/Hash: SM3 and SHA2_256 (src/sm3.h),  *)
(* SHA2_512_224 (src/sha2_512_224.h) and the TupleHash framing layer       *)
(* (src/tuple_hash.h).                                                     *)
(*                                                                         *)
(* Data representation.  A byte is an integer 0..255.  An unsigned word of *)
(* 16*n bits (uint32_t: n = 2, uint64_t: n = 4) is the tuple of its n      *)
(* 16-bit limbs, most significant limb first, so that every operation      *)
(* keeps the width of the C++ type and wraps where the C++ type wraps.     *)
(***************************************************************************)
EXTENDS Integers, Sequences, FiniteSets

(***************************************************************************)
(* Bitwise operators of C++ on 16-bit limbs.                               *)
(***************************************************************************)
RECURSIVE BitOp(_, _, _, _)
\* Bit-by-bit combination of the n low bits of a and b; tt is the truth
\* table <<f(0,0), f(0,1), f(1,0), f(1,1)>>.
BitOp(tt, a, b, n) ==
    IF n = 0 THEN 0
    ELSE tt[2 * (a % 2) + (b % 2) + 1] + 2 * BitOp(tt, a \div 2, b \div 2, n - 1)

RECURSIVE NibbleRow(_, _, _)
\* One row of the table of a bitwise operator on 4-bit operands: (a op c)
\* for c = b..15.
NibbleRow(tt, a, b) ==
    IF b > 15 THEN <<>> ELSE <<BitOp(tt, a, b, 4)>> \o NibbleRow(tt, a, b + 1)

RECURSIVE NibbleTable(_, _)
\* The rows a..15 of the table, one after the other: in the whole table
\* entry 16*a + b + 1 holds (a op b).
NibbleTable(tt, a) ==
    IF a > 15 THEN <<>> ELSE NibbleRow(tt, a, 0) \o NibbleTable(tt, a + 1)

XorTable == NibbleTable(<<0, 1, 1, 0>>, 0)
AndTable == NibbleTable(<<0, 0, 0, 1>>, 0)
OrTable  == NibbleTable(<<0, 1, 1, 1>>, 0)

\* A bitwise operator on two 16-bit limbs, nibble by nibble.
Limb2(tab, a, b) ==
      tab[(a \div 4096) * 16 + (b \div 4096) + 1] * 4096
    + tab[((a \div 256) % 16) * 16 + ((b \div 256) % 16) + 1] * 256
    + tab[((a \div 16) % 16) * 16 + ((b \div 16) % 16) + 1] * 16
    + tab[(a % 16) * 16 + (b % 16) + 1]

\* A bitwise operator on two words of the same width, limb by limb.
Word2(tab, a, b) == SubSeq([i \in 1..Len(a) |-> Limb2(tab, a[i], b[i])], 1, Len(a))

Xor(a, b)  == Word2(XorTable, a, b)
And(a, b)  == Word2(AndTable, a, b)
Or(a, b)   == Word2(OrTable, a, b)
Xor3(a, b, c) == Xor(Xor(a, b), c)

Pow2(n) == 2 ^ n

\* Limb i of x, zero outside the word (the bits a shift brings in).
LimbAt(x, i) == IF i >= 1 /\ i <= Len(x) THEN x[i] ELSE 0

\* Limb i of (x >> s), for 0 <= s < width.
ShrLimb(x, s, i) ==
    LET q == s \div 16
        r == s % 16
    IN  (LimbAt(x, i - q) \div Pow2(r)) + (LimbAt(x, i - q - 1) % Pow2(r)) * Pow2(16 - r)

\* Limb i of (x << s) truncated to the width, for 0 <= s < width.
ShlLimb(x, s, i) ==
    LET q == s \div 16
        r == s % 16
    IN  (LimbAt(x, i + q) % Pow2(16 - r)) * Pow2(r) + (LimbAt(x, i + q + 1) \div Pow2(16 - r))

\* x >> s on an unsigned word.
Shr(x, s) == SubSeq([i \in 1..Len(x) |-> ShrLimb(x, s, i)], 1, Len(x))

\* x << s on an unsigned word (bits shifted out are lost).
Shl(x, s) == SubSeq([i \in 1..Len(x) |-> ShlLimb(x, s, i)], 1, Len(x))

\* a + b on unsigned words: modulo 2^32 or 2^64.
Add(a, b) ==
    IF Len(a) = 2
    THEN LET s2 == a[2] + b[2]
             s1 == a[1] + b[1] + (s2 \div 65536)
         IN  <<s1 % 65536, s2 % 65536>>
    ELSE LET s4 == a[4] + b[4]
             s3 == a[3] + b[3] + (s4 \div 65536)
             s2 == a[2] + b[2] + (s3 \div 65536)
             s1 == a[1] + b[1] + (s2 \div 65536)
         IN  <<s1 % 65536, s2 % 65536, s3 % 65536, s4 % 65536>>

Add3(a, b, c)       == Add(Add(a, b), c)
Add4(a, b, c, d)    == Add(Add(Add(a, b), c), d)
Add5(a, b, c, d, e) == Add(Add(Add(Add(a, b), c), d), e)

\* a < b on unsigned words of the same width.
Less(a, b) ==
    \E i \in 1..Len(a) : a[i] < b[i] /\ \A j \in 1..(i - 1) : a[j] = b[j]

\* The words 0 and 1, and a small natural number n < 2^31 as a word.
U32(n) == <<n \div 65536, n % 65536>>
U64(n) == <<0, 0, n \div 65536, n % 65536>>

(***************************************************************************)
(* helpers of the source: ror, rotl, rotr, Loader                          *)
(***************************************************************************)
\* ror<Byte>(x, s): ((x >> s) & mask) with mask = 0xff.
rorByte(x, s) == Shr(x, s)[Len(x)] % 256

\* ror<uint32_t>(x, s) on a 64-bit or a 32-bit x: the low 32 bits of x >> s.
rorU32(x, s) == LET y == Shr(x, s) IN <<y[Len(y) - 1], y[Len(y)]>>

\* ror<uint64_t>(x, s) on a 64-bit x, ror<uint32_t> on a 32-bit x: x >> s.
rorSame(x, s) == Shr(x, s)

rotl(x, s) == IF s = 0 THEN x ELSE Or(Shl(x, s), Shr(x, 16 * Len(x) - s))
rotr(x, s) == IF s = 0 THEN x ELSE Or(Shr(x, s), Shl(x, 16 * Len(x) - s))

\* Loader<uint32_t>(ptr)[idx] on the bytes of data starting at offset base
\* (0-based): the big-endian 32-bit word at base + 4*idx.
Loader32(data, base, idx) ==
    LET p == base + 4 * idx
    IN  <<data[p + 1] * 256 + data[p + 2], data[p + 3] * 256 + data[p + 4]>>

\* Loader<uint64_t>(ptr)[idx]: the big-endian 64-bit word at base + 8*idx.
Loader64(data, base, idx) ==
    LET p == base + 8 * idx
    IN  <<data[p + 1] * 256 + data[p + 2], data[p + 3] * 256 + data[p + 4],
          data[p + 5] * 256 + data[p + 6], data[p + 7] * 256 + data[p + 8]>>

(***************************************************************************)
(* SHA2_256 (src/sm3.h, second half of the file)                           *)
(***************************************************************************)
\* SHA2_256::reset: the initial chaining value m_h[0..7].
sha256_init ==
    << <<\H6a09, \He667>>, <<\Hbb67, \Hae85>>, <<\H3c6e, \Hf372>>, <<\Ha54f, \Hf53a>>,
       <<\H510e, \H527f>>, <<\H9b05, \H688c>>, <<\H1f83, \Hd9ab>>, <<\H5be0, \Hcd19>> >>

kTable256 ==
    << <<\H428a, \H2f98>>, <<\H7137, \H4491>>, <<\Hb5c0, \Hfbcf>>, <<\He9b5, \Hdba5>>,
       <<\H3956, \Hc25b>>, <<\H59f1, \H11f1>>, <<\H923f, \H82a4>>, <<\Hab1c, \H5ed5>>,
       <<\Hd807, \Haa98>>, <<\H1283, \H5b01>>, <<\H2431, \H85be>>, <<\H550c, \H7dc3>>,
       <<\H72be, \H5d74>>, <<\H80de, \Hb1fe>>, <<\H9bdc, \H06a7>>, <<\Hc19b, \Hf174>>,
       <<\He49b, \H69c1>>, <<\Hefbe, \H4786>>, <<\H0fc1, \H9dc6>>, <<\H240c, \Ha1cc>>,
       <<\H2de9, \H2c6f>>, <<\H4a74, \H84aa>>, <<\H5cb0, \Ha9dc>>, <<\H76f9, \H88da>>,
       <<\H983e, \H5152>>, <<\Ha831, \Hc66d>>, <<\Hb003, \H27c8>>, <<\Hbf59, \H7fc7>>,
       <<\Hc6e0, \H0bf3>>, <<\Hd5a7, \H9147>>, <<\H06ca, \H6351>>, <<\H1429, \H2967>>,
       <<\H27b7, \H0a85>>, <<\H2e1b, \H2138>>, <<\H4d2c, \H6dfc>>, <<\H5338, \H0d13>>,
       <<\H650a, \H7354>>, <<\H766a, \H0abb>>, <<\H81c2, \Hc92e>>, <<\H9272, \H2c85>>,
       <<\Ha2bf, \He8a1>>, <<\Ha81a, \H664b>>, <<\Hc24b, \H8b70>>, <<\Hc76c, \H51a3>>,
       <<\Hd192, \He819>>, <<\Hd699, \H0624>>, <<\Hf40e, \H3585>>, <<\H106a, \Ha070>>,
       <<\H19a4, \Hc116>>, <<\H1e37, \H6c08>>, <<\H2748, \H774c>>, <<\H34b0, \Hbcb5>>,
       <<\H391c, \H0cb3>>, <<\H4ed8, \Haa4a>>, <<\H5b9c, \Hca4f>>, <<\H682e, \H6ff3>>,
       <<\H748f, \H82ee>>, <<\H78a5, \H636f>>, <<\H84c8, \H7814>>, <<\H8cc7, \H0208>>,
       <<\H90be, \Hfffa>>, <<\Ha450, \H6ceb>>, <<\Hbef9, \Ha3f7>>, <<\Hc671, \H78f2>> >>

ssig0_256(x) == Xor3(rotr(x, 7), rotr(x, 18), rorSame(x, 3))
ssig1_256(x) == Xor3(rotr(x, 17), rotr(x, 19), rorSame(x, 10))
bsig0_256(x) == Xor3(rotr(x, 2), rotr(x, 13), rotr(x, 22))
\* bsig1 with 24 for the last rotation: C8 must tell it from bsig1_256.
bsig1_256_wrongRotation(x) == Xor3(rotr(x, 6), rotr(x, 11), rotr(x, 24))
bsig1_256(x) == Xor3(rotr(x, 6), rotr(x, 11), rotr(x, 25))

\* The "alternative" forms of Ch and Maj used by SHA2_256 and SHA2_512_224.
ch(x, y, z)  == Xor(And(x, Xor(y, z)), z)
maj(x, y, z) == Or(And(x, Or(y, z)), And(y, z))

RECURSIVE wExtend256(_)
\* wTable[t] for t = Len(w) .. 63, from the words before it (w is 1-based).
wExtend256(w) ==
    IF Len(w) >= 64 THEN w
    ELSE LET t == Len(w)
         IN  wExtend256(Append(w, Add4(ssig1_256(w[t - 2 + 1]), w[t - 7 + 1],
                                       ssig0_256(w[t - 15 + 1]), w[t - 16 + 1])))

\* wTable of the block at offset base of data.
wTable256(data, base) ==
    wExtend256(<<Loader32(data, base, 0),  Loader32(data, base, 1),
                 Loader32(data, base, 2),  Loader32(data, base, 3),
                 Loader32(data, base, 4),  Loader32(data, base, 5),
                 Loader32(data, base, 6),  Loader32(data, base, 7),
                 Loader32(data, base, 8),  Loader32(data, base, 9),
                 Loader32(data, base, 10), Loader32(data, base, 11),
                 Loader32(data, base, 12), Loader32(data, base, 13),
                 Loader32(data, base, 14), Loader32(data, base, 15)>>)

\* The lambda round(a, b, c, d, e, f, g, h, t).  v holds the local variables
\* <<a, b, c, d, e, f, g, h>> of addDataImpl and p names, for each of the
\* eight reference parameters, the variable passed for it; the lambda
\* assigns its parameters d and h.
round256(v, p, t, w) ==
    LET a == v[p[1]]
        b == v[p[2]]
        c == v[p[3]]
        d == v[p[4]]
        e == v[p[5]]
        f == v[p[6]]
        g == v[p[7]]
        h == v[p[8]]
        t1 == Add5(h, bsig1_256(e), ch(e, f, g), kTable256[t + 1], w[t + 1])
        t2 == Add(bsig0_256(a), maj(a, b, c))
    IN  [v EXCEPT ![p[4]] = Add(d, t1), ![p[8]] = Add(t1, t2)]

\* The variables passed for (a, b, c, d, e, f, g, h) by each of the eight
\* calls of round in the body of the loop over t: (a,b,c,d,e,f,g,h),
\* (h,a,b,c,d,e,f,g), (g,h,a,b,c,d,e,f), ...
roundArgs ==
    << <<1, 2, 3, 4, 5, 6, 7, 8>>, <<8, 1, 2, 3, 4, 5, 6, 7>>,
       <<7, 8, 1, 2, 3, 4, 5, 6>>, <<6, 7, 8, 1, 2, 3, 4, 5>>,
       <<5, 6, 7, 8, 1, 2, 3, 4>>, <<4, 5, 6, 7, 8, 1, 2, 3>>,
       <<3, 4, 5, 6, 7, 8, 1, 2>>, <<2, 3, 4, 5, 6, 7, 8, 1>> >>

RECURSIVE rounds8_256(_, _, _, _)
\* The calls i .. 7 of one pass of the loop "for (int t = 0; t < 8; ++t)";
\* call i is round(..., t * 8 + i).  (Len(v) makes v a value before the
\* next call.)
rounds8_256(v, t, i, w) ==
    IF i >= 8 \/ Len(v) # 8 THEN v
    ELSE rounds8_256(round256(v, roundArgs[i + 1], (8 * t) + i, w), t, i + 1, w)

RECURSIVE roundLoop256(_, _, _)
\* The passes t .. 7 of the loop.
roundLoop256(v, t, w) ==
    IF t >= 8 \/ Len(v) # 8 THEN v
    ELSE roundLoop256(rounds8_256(v, t, 0, w), t + 1, w)

\* Elementwise m_h[i] += v[i].
addState(h, v) ==
    <<Add(h[1], v[1]), Add(h[2], v[2]), Add(h[3], v[3]), Add(h[4], v[4]),
      Add(h[5], v[5]), Add(h[6], v[6]), Add(h[7], v[7]), Add(h[8], v[8])>>

\* The body of the block loop of SHA2_256::addDataImpl for the block at
\* offset base: the new m_h.
compress256(h, data, base) ==
    addState(h, roundLoop256(h, 0, wTable256(data, base)))

(***************************************************************************)
(* SM3 (src/sm3.h, first half of the file)                                 *)
(***************************************************************************)
\* SM3::reset: the initial chaining value m_v[0..7].
sm3_init ==
    << <<\H7380, \H166f>>, <<\H4914, \Hb2b9>>, <<\H1724, \H42d7>>, <<\Hda8a, \H0600>>,
       <<\Ha96f, \H30bc>>, <<\H1631, \H38aa>>, <<\He38d, \Hee4d>>, <<\Hb0fb, \H0e4e>> >>

\* The constant passed as tTable by the t-th of the 64 unrolled calls
\* sm3Round1(..., tTable, t) / sm3Round2(..., tTable, t), entry t + 1.
tTableSM3 ==
    << <<\H79cc, \H4519>>, <<\Hf398, \H8a32>>, <<\He731, \H1465>>, <<\Hce62, \H28cb>>,
       <<\H9cc4, \H5197>>, <<\H3988, \Ha32f>>, <<\H7311, \H465e>>, <<\He622, \H8cbc>>,
       <<\Hcc45, \H1979>>, <<\H988a, \H32f3>>, <<\H3114, \H65e7>>, <<\H6228, \Hcbce>>,
       <<\Hc451, \H979c>>, <<\H88a3, \H2f39>>, <<\H1146, \H5e73>>, <<\H228c, \Hbce6>>,
       <<\H9d8a, \H7a87>>, <<\H3b14, \Hf50f>>, <<\H7629, \Hea1e>>, <<\Hec53, \Hd43c>>,
       <<\Hd8a7, \Ha879>>, <<\Hb14f, \H50f3>>, <<\H629e, \Ha1e7>>, <<\Hc53d, \H43ce>>,
       <<\H8a7a, \H879d>>, <<\H14f5, \H0f3b>>, <<\H29ea, \H1e76>>, <<\H53d4, \H3cec>>,
       <<\Ha7a8, \H79d8>>, <<\H4f50, \Hf3b1>>, <<\H9ea1, \He762>>, <<\H3d43, \Hcec5>>,
       <<\H7a87, \H9d8a>>, <<\Hf50f, \H3b14>>, <<\Hea1e, \H7629>>, <<\Hd43c, \Hec53>>,
       <<\Ha879, \Hd8a7>>, <<\H50f3, \Hb14f>>, <<\Ha1e7, \H629e>>, <<\H43ce, \Hc53d>>,
       <<\H879d, \H8a7a>>, <<\H0f3b, \H14f5>>, <<\H1e76, \H29ea>>, <<\H3cec, \H53d4>>,
       <<\H79d8, \Ha7a8>>, <<\Hf3b1, \H4f50>>, <<\He762, \H9ea1>>, <<\Hcec5, \H3d43>>,
       <<\H9d8a, \H7a87>>, <<\H3b14, \Hf50f>>, <<\H7629, \Hea1e>>, <<\Hec53, \Hd43c>>,
       <<\Hd8a7, \Ha879>>, <<\Hb14f, \H50f3>>, <<\H629e, \Ha1e7>>, <<\Hc53d, \H43ce>>,
       <<\H8a7a, \H879d>>, <<\H14f5, \H0f3b>>, <<\H29ea, \H1e76>>, <<\H53d4, \H3cec>>,
       <<\Ha7a8, \H79d8>>, <<\H4f50, \Hf3b1>>, <<\H9ea1, \He762>>, <<\H3d43, \Hcec5>> >>

\* permutation0 with 16 for the last rotation: C9 must tell it from
\* permutation0.
permutation0_wrongRotation(x) == Xor3(x, rotl(x, 9), rotl(x, 16))
permutation0(x) == Xor3(x, rotl(x, 9), rotl(x, 17))
permutation1(x) == Xor3(x, rotl(x, 15), rotl(x, 23))

RECURSIVE expandSM3(_)
\* expanedMsg[t] for t = Len(w) .. 67, from the words before it.
expandSM3(w) ==
    IF Len(w) >= 68 THEN w
    ELSE LET t == Len(w)
         IN  expandSM3(Append(w,
                 Xor3(permutation1(Xor3(rotl(w[t - 3 + 1], 15), w[t - 9 + 1], w[t - 16 + 1])),
                      rotl(w[t - 13 + 1], 7), w[t - 6 + 1])))

\* expanedMsg of the block at offset base of data.
expanedMsg(data, base) ==
    expandSM3(<<Loader32(data, base, 0), Loader32(data, base, 1), Loader32(data, base, 2), Loader32(data, base, 3),
          Loader32(data, base, 4), Loader32(data, base, 5), Loader32(data, base, 6), Loader32(data, base, 7),
          Loader32(data, base, 8), Loader32(data, base, 9), Loader32(data, base, 10), Loader32(data, base, 11),
          Loader32(data, base, 12), Loader32(data, base, 13), Loader32(data, base, 14), Loader32(data, base, 15)>>)

\* The lambdas sm3Round1 (t < 16) and sm3Round2 (t >= 16), which differ in
\* the Boolean functions of tt1 and tt2.  v holds the local variables
\* <<a, b, c, d, e, f, g, h>> and p names the variable passed for each of
\* the eight parameters; the lambda assigns its parameters b, d, f and h.
sm3Round(v, p, t, w) ==
    LET a == v[p[1]]
        b == v[p[2]]
        c == v[p[3]]
        d == v[p[4]]
        e == v[p[5]]
        f == v[p[6]]
        g == v[p[7]]
        h == v[p[8]]
        wPrime == Xor(w[t + 1], w[t + 4 + 1])
        tmpA == rotl(a, 12)
        ss1 == rotl(Add3(tmpA, e, tTableSM3[t + 1]), 7)
        ss2 == Xor(ss1, tmpA)
        tt1 == IF t < 16
               THEN Add4(Xor3(a, b, c), d, ss2, wPrime)
               ELSE Add4(Or(And(a, b), And(c, Or(a, b))), d, ss2, wPrime)
        tt2 == IF t < 16
               THEN Add4(Xor3(e, f, g), h, ss1, w[t + 1])
               ELSE Add4(Xor(g, And(e, Xor(f, g))), h, ss1, w[t + 1])
    IN  [v EXCEPT ![p[2]] = rotl(b, 9),
                  ![p[4]] = tt1,
                  ![p[6]] = rotl(f, 19),
                  ![p[8]] = permutation0(tt2)]

\* The variables passed for (a, b, c, d, e, f, g, h) by the unrolled calls
\* t = 4*k, 4*k + 1, 4*k + 2, 4*k + 3: (a,b,c,d,e,f,g,h), (d,a,b,c,h,e,f,g),
\* (c,d,a,b,g,h,e,f), (b,c,d,a,f,g,h,e).
sm3RoundArgs ==
    << <<1, 2, 3, 4, 5, 6, 7, 8>>, <<4, 1, 2, 3, 8, 5, 6, 7>>,
       <<3, 4, 1, 2, 7, 8, 5, 6>>, <<2, 3, 4, 1, 6, 7, 8, 5>> >>

RECURSIVE sm3Rounds4(_, _, _, _)
\* The unrolled calls 4*k + i .. 4*k + 3.
sm3Rounds4(v, k, i, w) ==
    IF i >= 4 \/ Len(v) # 8 THEN v
    ELSE sm3Rounds4(sm3Round(v, sm3RoundArgs[i + 1], (4 * k) + i, w), k, i + 1, w)

RECURSIVE sm3RoundLoop(_, _, _)
\* The 64 unrolled calls from 4*k on.
sm3RoundLoop(v, k, w) ==
    IF k >= 16 \/ Len(v) # 8 THEN v
    ELSE sm3RoundLoop(sm3Rounds4(v, k, 0, w), k + 1, w)

\* Elementwise m_v[i] ^= v[i].
xorState(h, v) ==
    <<Xor(h[1], v[1]), Xor(h[2], v[2]), Xor(h[3], v[3]), Xor(h[4], v[4]),
      Xor(h[5], v[5]), Xor(h[6], v[6]), Xor(h[7], v[7]), Xor(h[8], v[8])>>

\* The body of the block loop of SM3::addDataImpl for the block at offset
\* base: the new m_v.
compressSM3(h, data, base) ==
    xorState(h, sm3RoundLoop(h, 0, expanedMsg(data, base)))

(***************************************************************************)
(* SHA2_512_224 (src/sha2_512_224.h)                                       *)
(***************************************************************************)
\* SHA2_512_224::reset: the initial chaining value m_h[0..7].
sha512_224_init ==
    << <<\H8C3D, \H37C8, \H1954, \H4DA2>>, <<\H73E1, \H9966, \H89DC, \HD4D6>>,
       <<\H1DFA, \HB7AE, \H32FF, \H9C82>>, <<\H679D, \HD514, \H582F, \H9FCF>>,
       <<\H0F6D, \H2B69, \H7BD4, \H4DA8>>, <<\H77E3, \H6F73, \H04C4, \H8942>>,
       <<\H3F9D, \H85A8, \H6A1D, \H36C8>>, <<\H1112, \HE6AD, \H91D6, \H92A1>> >>

kTable512 ==
    << <<\H428a, \H2f98, \Hd728, \Hae22>>, <<\H7137, \H4491, \H23ef, \H65cd>>,
       <<\Hb5c0, \Hfbcf, \Hec4d, \H3b2f>>, <<\He9b5, \Hdba5, \H8189, \Hdbbc>>,
       <<\H3956, \Hc25b, \Hf348, \Hb538>>, <<\H59f1, \H11f1, \Hb605, \Hd019>>,
       <<\H923f, \H82a4, \Haf19, \H4f9b>>, <<\Hab1c, \H5ed5, \Hda6d, \H8118>>,
       <<\Hd807, \Haa98, \Ha303, \H0242>>, <<\H1283, \H5b01, \H4570, \H6fbe>>,
       <<\H2431, \H85be, \H4ee4, \Hb28c>>, <<\H550c, \H7dc3, \Hd5ff, \Hb4e2>>,
       <<\H72be, \H5d74, \Hf27b, \H896f>>, <<\H80de, \Hb1fe, \H3b16, \H96b1>>,
       <<\H9bdc, \H06a7, \H25c7, \H1235>>, <<\Hc19b, \Hf174, \Hcf69, \H2694>>,
       <<\He49b, \H69c1, \H9ef1, \H4ad2>>, <<\Hefbe, \H4786, \H384f, \H25e3>>,
       <<\H0fc1, \H9dc6, \H8b8c, \Hd5b5>>, <<\H240c, \Ha1cc, \H77ac, \H9c65>>,
       <<\H2de9, \H2c6f, \H592b, \H0275>>, <<\H4a74, \H84aa, \H6ea6, \He483>>,
       <<\H5cb0, \Ha9dc, \Hbd41, \Hfbd4>>, <<\H76f9, \H88da, \H8311, \H53b5>>,
       <<\H983e, \H5152, \Hee66, \Hdfab>>, <<\Ha831, \Hc66d, \H2db4, \H3210>>,
       <<\Hb003, \H27c8, \H98fb, \H213f>>, <<\Hbf59, \H7fc7, \Hbeef, \H0ee4>>,
       <<\Hc6e0, \H0bf3, \H3da8, \H8fc2>>, <<\Hd5a7, \H9147, \H930a, \Ha725>>,
       <<\H06ca, \H6351, \He003, \H826f>>, <<\H1429, \H2967, \H0a0e, \H6e70>>,
       <<\H27b7, \H0a85, \H46d2, \H2ffc>>, <<\H2e1b, \H2138, \H5c26, \Hc926>>,
       <<\H4d2c, \H6dfc, \H5ac4, \H2aed>>, <<\H5338, \H0d13, \H9d95, \Hb3df>>,
       <<\H650a, \H7354, \H8baf, \H63de>>, <<\H766a, \H0abb, \H3c77, \Hb2a8>>,
       <<\H81c2, \Hc92e, \H47ed, \Haee6>>, <<\H9272, \H2c85, \H1482, \H353b>>,
       <<\Ha2bf, \He8a1, \H4cf1, \H0364>>, <<\Ha81a, \H664b, \Hbc42, \H3001>>,
       <<\Hc24b, \H8b70, \Hd0f8, \H9791>>, <<\Hc76c, \H51a3, \H0654, \Hbe30>>,
       <<\Hd192, \He819, \Hd6ef, \H5218>>, <<\Hd699, \H0624, \H5565, \Ha910>>,
       <<\Hf40e, \H3585, \H5771, \H202a>>, <<\H106a, \Ha070, \H32bb, \Hd1b8>>,
       <<\H19a4, \Hc116, \Hb8d2, \Hd0c8>>, <<\H1e37, \H6c08, \H5141, \Hab53>>,
       <<\H2748, \H774c, \Hdf8e, \Heb99>>, <<\H34b0, \Hbcb5, \He19b, \H48a8>>,
       <<\H391c, \H0cb3, \Hc5c9, \H5a63>>, <<\H4ed8, \Haa4a, \He341, \H8acb>>,
       <<\H5b9c, \Hca4f, \H7763, \He373>>, <<\H682e, \H6ff3, \Hd6b2, \Hb8a3>>,
       <<\H748f, \H82ee, \H5def, \Hb2fc>>, <<\H78a5, \H636f, \H4317, \H2f60>>,
       <<\H84c8, \H7814, \Ha1f0, \Hab72>>, <<\H8cc7, \H0208, \H1a64, \H39ec>>,
       <<\H90be, \Hfffa, \H2363, \H1e28>>, <<\Ha450, \H6ceb, \Hde82, \Hbde9>>,
       <<\Hbef9, \Ha3f7, \Hb2c6, \H7915>>, <<\Hc671, \H78f2, \He372, \H532b>>,
       <<\Hca27, \H3ece, \Hea26, \H619c>>, <<\Hd186, \Hb8c7, \H21c0, \Hc207>>,
       <<\Heada, \H7dd6, \Hcde0, \Heb1e>>, <<\Hf57d, \H4f7f, \Hee6e, \Hd178>>,
       <<\H06f0, \H67aa, \H7217, \H6fba>>, <<\H0a63, \H7dc5, \Ha2c8, \H98a6>>,
       <<\H113f, \H9804, \Hbef9, \H0dae>>, <<\H1b71, \H0b35, \H131c, \H471b>>,
       <<\H28db, \H77f5, \H2304, \H7d84>>, <<\H32ca, \Hab7b, \H40c7, \H2493>>,
       <<\H3c9e, \Hbe0a, \H15c9, \Hbebc>>, <<\H431d, \H67c4, \H9c10, \H0d4c>>,
       <<\H4cc5, \Hd4be, \Hcb3e, \H42b6>>, <<\H597f, \H299c, \Hfc65, \H7e2a>>,
       <<\H5fcb, \H6fab, \H3ad6, \Hfaec>>, <<\H6c44, \H198c, \H4a47, \H5817>> >>

ssig0_512(x) == Xor3(rotr(x, 1), rotr(x, 8), rorSame(x, 7))
ssig1_512(x) == Xor3(rotr(x, 19), rotr(x, 61), rorSame(x, 6))
bsig0_512(x) == Xor3(rotr(x, 28), rotr(x, 34), rotr(x, 39))
bsig1_512(x) == Xor3(rotr(x, 14), rotr(x, 18), rotr(x, 41))

RECURSIVE wExtend512(_)
\* wTable[t] for t = Len(w) .. 79, from the words before it.
wExtend512(w) ==
    IF Len(w) >= 80 THEN w
    ELSE LET t == Len(w)
         IN  wExtend512(Append(w, Add4(ssig1_512(w[t - 2 + 1]), w[t - 7 + 1],
                                       ssig0_512(w[t - 15 + 1]), w[t - 16 + 1])))

\* wTable of the block at offset base of data.
wTable512(data, base) ==
    wExtend512(<<Loader64(data, base, 0), Loader64(data, base, 1), Loader64(data, base, 2), Loader64(data, base, 3),
          Loader64(data, base, 4), Loader64(data, base, 5), Loader64(data, base, 6), Loader64(data, base, 7),
          Loader64(data, base, 8), Loader64(data, base, 9), Loader64(data, base, 10), Loader64(data, base, 11),
          Loader64(data, base, 12), Loader64(data, base, 13), Loader64(data, base, 14), Loader64(data, base, 15)>>)

\* The lambda round(a, b, c, d, e, f, g, h, t) of SHA2_512_224::addDataImpl.
round512(v, p, t, w) ==
    LET a == v[p[1]]
        b == v[p[2]]
        c == v[p[3]]
        d == v[p[4]]
        e == v[p[5]]
        f == v[p[6]]
        g == v[p[7]]
        h == v[p[8]]
        t1 == Add5(h, bsig1_512(e), ch(e, f, g), kTable512[t + 1], w[t + 1])
        t2 == Add(bsig0_512(a), maj(a, b, c))
    IN  [v EXCEPT ![p[4]] = Add(d, t1), ![p[8]] = Add(t1, t2)]

RECURSIVE rounds8_512(_, _, _, _)
\* The calls i .. 7 of one pass of the loop "for (int t = 0; t < 10; ++t)".
rounds8_512(v, t, i, w) ==
    IF i >= 8 \/ Len(v) # 8 THEN v
    ELSE rounds8_512(round512(v, roundArgs[i + 1], (8 * t) + i, w), t, i + 1, w)

RECURSIVE roundLoop512(_, _, _)
\* The passes t .. 9 of the loop.
roundLoop512(v, t, w) ==
    IF t >= 10 \/ Len(v) # 8 THEN v
    ELSE roundLoop512(rounds8_512(v, t, 0, w), t + 1, w)

\* The body of the block loop of SHA2_512_224::addDataImpl for the block at
\* offset base: the new m_h.
compress512(h, data, base) ==
    addState(h, roundLoop512(h, 0, wTable512(data, base)))

(***************************************************************************)
(* The hash objects.  An object is the record of its fields m_buffer,      *)
(* m_sizeCounter and m_h (m_v in SM3), with two history fields that the    *)
(* program does not hold: compressed, the blocks handed to the block loop  *)
(* of addDataImpl so far, and aligned, whether every call of addDataImpl   *)
(* so far satisfied its assertion.                                         *)
(***************************************************************************)
Algorithms == {"SM3", "SHA2_256", "SHA2_512_224"}

\* const unsigned int BLOCK_SIZE of each class.
BLOCK_SIZE(alg) == IF alg = "SHA2_512_224" THEN 128 ELSE 64

\* The number of bytes finalize() reserves for the size in bits.
SizeFieldBytes(alg) == IF alg = "SHA2_512_224" THEN 16 ELSE 8

Min(a, b) == IF a <= b THEN a ELSE b

\* n bytes of value 0.
Zeros(n) == [i \in 1..n |-> 0]

(* class SHA2_512_224::Uint128, the record of m_lo and m_hi *)
\* Uint128::operator=(n)
Uint128_assign(n) == [m_lo |-> n, m_hi |-> U64(0)]

\* Uint128::operator*(8): it assigns the product to *this and returns *this.
Uint128_times8(c) ==
    LET msb == rorByte(c.m_lo, 61)
    IN  [m_hi |-> Or(Shl(c.m_hi, 3), U64(msb)), m_lo |-> Shl(c.m_lo, 3)]

\* Uint128::Uint128()
Uint128_construct == [m_lo |-> U64(0), m_hi |-> U64(0)]

\* operator+= without "if (newLo < m_lo) ++m_hi": C16 must tell it from
\* Uint128_plus.
Uint128_plus_noCarry(c, n) == [m_lo |-> Add(c.m_lo, n), m_hi |-> c.m_hi]

\* Uint128::operator+=(n)
Uint128_plus(c, n) ==
    LET newLo == Add(c.m_lo, n)
    IN  [m_lo |-> newLo,
         m_hi |-> IF Less(newLo, c.m_lo) THEN Add(c.m_hi, U64(1)) ELSE c.m_hi]

\* "m_sizeCounter += n" that leaves the counter as it is: C12 must tell it
\* from counterPlus.
counterPlus_ignored(alg, c, n) == c

\* m_sizeCounter += n, for a size n.
counterPlus(alg, c, n) ==
    IF alg = "SHA2_512_224" THEN Uint128_plus(c, U64(n)) ELSE Add(c, U64(n))

\* The initial chaining value that reset() assigns to m_h[0..7] (m_v in SM3).
initialHash(alg) ==
    CASE alg = "SM3"          -> sm3_init
      [] alg = "SHA2_256"     -> sha256_init
      [] alg = "SHA2_512_224" -> sha512_224_init

\* reset() without "m_buffer.clear()": C4 must tell it from reset.
reset_keepsBuffer(alg, self) ==
    [self EXCEPT !.m_sizeCounter = IF alg = "SHA2_512_224"
                                   THEN Uint128_assign(U64(0)) ELSE U64(0),
                 !.m_h = initialHash(alg)]

\* reset(): it clears m_buffer and assigns m_sizeCounter and every m_h[i].
reset(alg, self) ==
    [self EXCEPT !.m_buffer = <<>>,
                 !.m_sizeCounter = IF alg = "SHA2_512_224"
                                   THEN Uint128_assign(U64(0)) ELSE U64(0),
                 !.m_h = initialHash(alg)]

\* The constructor: the members are default-initialized (m_sizeCounter and
\* m_h hold no determinate value, except that Uint128() is zero), capacity
\* is reserved for m_buffer, and reset() is called.
construct(alg) ==
    reset(alg, [m_buffer      |-> <<>>,
                m_sizeCounter |-> IF alg = "SHA2_512_224"
                                  THEN [m_lo |-> U64(0), m_hi |-> U64(0)]
                                  ELSE "indeterminate",
                m_h           |-> "indeterminate",
                compressed    |-> <<>>,
                aligned       |-> TRUE])

\* One iteration of the block loop of addDataImpl.
compress(alg, h, data, base) ==
    CASE alg = "SM3"          -> compressSM3(h, data, base)
      [] alg = "SHA2_256"     -> compress256(h, data, base)
      [] alg = "SHA2_512_224" -> compress512(h, data, base)

RECURSIVE blockLoop(_, _, _, _, _)
\* The loop "for (i = 0; i < iend; ++i)" of addDataImpl from iteration i on.
\* (Len(h) makes h a value before the next iteration.)
blockLoop(alg, h, data, i, iend) ==
    IF i >= iend \/ Len(h) # 8 THEN h
    ELSE blockLoop(alg, compress(alg, h, data, i * BLOCK_SIZE(alg)), data, i + 1, iend)

\* The i-th block of data (i = 1, 2, ...).
BlockOf(alg, data, i) ==
    SubSeq(data, ((i - 1) * BLOCK_SIZE(alg)) + 1, i * BLOCK_SIZE(alg))

\* addDataImpl(data)
addDataImpl(alg, self, data) ==
    LET iend == Len(data) \div BLOCK_SIZE(alg)
    IN  [m_buffer      |-> self.m_buffer,
         m_sizeCounter |-> counterPlus(alg, self.m_sizeCounter, Len(data)),
         m_h           |-> blockLoop(alg, self.m_h, data, 0, iend),
         compressed    |-> self.compressed \o [i \in 1..iend |-> BlockOf(alg, data, i)],
         aligned       |-> self.aligned /\ (Len(data) % BLOCK_SIZE(alg)) = 0]

\* The rest of addData without "m_buffer = {data.begin(), data.end()}" for
\* less than a block of data, as if the call were rejected: C5 must tell it
\* from addDataRest.
addDataRest_dropsTail(alg, self, data) ==
    LET dataSize == Len(data)
        len == dataSize - (dataSize % BLOCK_SIZE(alg))
    IN  IF dataSize < BLOCK_SIZE(alg)
        THEN self
        ELSE [addDataImpl(alg, self, SubSeq(data, 1, len)) EXCEPT
                 !.m_buffer = IF len < dataSize THEN SubSeq(data, len + 1, dataSize) ELSE @]

\* The rest of addData stashing the bytes from data.begin() and not from
\* data.begin() + len once the full blocks are compressed: C15 must tell
\* it from addDataRest.
addDataRest_stashesAll(alg, self, data) ==
    LET dataSize == Len(data)
        len == dataSize - (dataSize % BLOCK_SIZE(alg))
    IN  IF dataSize < BLOCK_SIZE(alg)
        THEN [self EXCEPT !.m_buffer = data]
        ELSE [addDataImpl(alg, self, SubSeq(data, 1, len)) EXCEPT
                 !.m_buffer = IF len < dataSize THEN SubSeq(data, 1, dataSize - len) ELSE @]

\* addData from "const size_t dataSize = data.size();" on: data is what is
\* left of the input once a pending buffer has been topped up.
addDataRest(alg, self, data) ==
    LET dataSize == Len(data)
        len == dataSize - (dataSize % BLOCK_SIZE(alg))
    IN  IF dataSize < BLOCK_SIZE(alg)
        THEN [self EXCEPT !.m_buffer = data]
        ELSE [addDataImpl(alg, self, SubSeq(data, 1, len)) EXCEPT
                 !.m_buffer = IF len < dataSize THEN SubSeq(data, len + 1, dataSize) ELSE @]

\* A top-up that appends the whole input to the buffer: C14 must tell it
\* from toppedUp.
toppedUp_whole(alg, buffer, inData) == buffer \o inData

\* m_buffer in addData after "m_buffer.insert(m_buffer.end(), data.begin(),
\* data.begin() + len)": a pending buffer filled up to BLOCK_SIZE bytes.
toppedUp(alg, buffer, inData) ==
    buffer \o SubSeq(inData, 1, Min(BLOCK_SIZE(alg) - Len(buffer), Len(inData)))

\* addData without "data = data.subspan(len)" once the buffer is filled:
\* C1 must tell it from addData.
addData_noSubspan(alg, self, inData) ==
    IF self.m_buffer # <<>>
    THEN LET len == Min(BLOCK_SIZE(alg) - Len(self.m_buffer), Len(inData))
             filled == [self EXCEPT !.m_buffer = self.m_buffer \o SubSeq(inData, 1, len)]
         IN  IF Len(filled.m_buffer) < BLOCK_SIZE(alg)
             THEN filled
             ELSE addDataRest(alg,
                      [addDataImpl(alg, filled, filled.m_buffer) EXCEPT !.m_buffer = <<>>],
                      inData)
    ELSE addDataRest(alg, self, inData)

\* addData(inData)
addData(alg, self, inData) ==
    IF self.m_buffer # <<>>
    THEN LET len == Min(BLOCK_SIZE(alg) - Len(self.m_buffer), Len(inData))
             filled == [self EXCEPT !.m_buffer = toppedUp(alg, self.m_buffer, inData)]
         IN  IF Len(filled.m_buffer) < BLOCK_SIZE(alg)
             THEN filled
             ELSE addDataRest(alg,
                      [addDataImpl(alg, filled, filled.m_buffer) EXCEPT !.m_buffer = <<>>],
                      SubSeq(inData, len + 1, Len(inData)))
    ELSE addDataRest(alg, self, inData)

\* The size in bits with its two 32-bit halves stored in the other order:
\* C13 must tell it from sizeBytes64.
sizeBytes64_halvesSwapped(sizeCounterBits) ==
    LET sizeCounterBitsL == rorU32(sizeCounterBits, 0)
        sizeCounterBitsH == rorU32(sizeCounterBits, 32)
    IN  <<rorByte(sizeCounterBitsL, 24), rorByte(sizeCounterBitsL, 16),
          rorByte(sizeCounterBitsL, 8),  rorByte(sizeCounterBitsL, 0),
          rorByte(sizeCounterBitsH, 24), rorByte(sizeCounterBitsH, 16),
          rorByte(sizeCounterBitsH, 8),  rorByte(sizeCounterBitsH, 0)>>

\* The bytes finalize() stores at the end of the padded buffer: the size in
\* bits, most significant byte first.
sizeBytes64(sizeCounterBits) ==
    LET sizeCounterBitsL == rorU32(sizeCounterBits, 0)
        sizeCounterBitsH == rorU32(sizeCounterBits, 32)
    IN  <<rorByte(sizeCounterBitsH, 24), rorByte(sizeCounterBitsH, 16),
          rorByte(sizeCounterBitsH, 8),  rorByte(sizeCounterBitsH, 0),
          rorByte(sizeCounterBitsL, 24), rorByte(sizeCounterBitsL, 16),
          rorByte(sizeCounterBitsL, 8),  rorByte(sizeCounterBitsL, 0)>>

sizeBytes128(sizeCounterBits) ==
    LET sizeCounterBitsL == sizeCounterBits.m_lo
        sizeCounterBitsH == sizeCounterBits.m_hi
    IN  <<rorByte(sizeCounterBitsH, 56), rorByte(sizeCounterBitsH, 48),
          rorByte(sizeCounterBitsH, 40), rorByte(sizeCounterBitsH, 32),
          rorByte(sizeCounterBitsH, 24), rorByte(sizeCounterBitsH, 16),
          rorByte(sizeCounterBitsH, 8),  rorByte(sizeCounterBitsH, 0),
          rorByte(sizeCounterBitsL, 56), rorByte(sizeCounterBitsL, 48),
          rorByte(sizeCounterBitsL, 40), rorByte(sizeCounterBitsL, 32),
          rorByte(sizeCounterBitsL, 24), rorByte(sizeCounterBitsL, 16),
          rorByte(sizeCounterBitsL, 8),  rorByte(sizeCounterBitsL, 0)>>

\* A padding length that leaves the size field out of the remainder: C17
\* must tell it from paddingLen.
paddingLen_noSizeField(alg, bufferSize) ==
    BLOCK_SIZE(alg) - (bufferSize % BLOCK_SIZE(alg))

\* A padding length that is a block longer: C3 must tell it from paddingLen.
paddingLen_extraBlock(alg, bufferSize) ==
    (2 * BLOCK_SIZE(alg)) - ((bufferSize + SizeFieldBytes(alg)) % BLOCK_SIZE(alg))

\* "const size_t len = BLOCK_SIZE - ((m_buffer.size() + 8) % BLOCK_SIZE);"
\* (+ 16 in SHA2_512_224), for a buffer of bufferSize bytes.
paddingLen(alg, bufferSize) ==
    BLOCK_SIZE(alg) - ((bufferSize + SizeFieldBytes(alg)) % BLOCK_SIZE(alg))

\* m_buffer in finalize() at the call addDataImpl(m_buffer), with counter the
\* value of m_sizeCounter after "m_sizeCounter += m_buffer.size()".
paddedBuffer(alg, buffer, counter) ==
    LET withBit == Append(buffer, 128)
        len == paddingLen(alg, Len(withBit))
        padded == withBit \o Zeros(len + SizeFieldBytes(alg))
        size == IF alg = "SHA2_512_224"
                THEN sizeBytes128(Uint128_times8(counter))
                ELSE sizeBytes64(Shl(counter, 3))
    IN  SubSeq(padded, 1, Len(padded) - SizeFieldBytes(alg)) \o size

\* finalize()
finalize(alg, self) ==
    LET counter == counterPlus(alg, self.m_sizeCounter, Len(self.m_buffer))
        buffer == paddedBuffer(alg, self.m_buffer, counter)
        \* SHA2_512_224: "m_sizeCounter * 8" multiplies m_sizeCounter itself
        scaled == IF alg = "SHA2_512_224" THEN Uint128_times8(counter) ELSE counter
        added == addDataImpl(alg, [self EXCEPT !.m_buffer = buffer,
                                                !.m_sizeCounter = scaled], buffer)
    IN  [added EXCEPT !.m_buffer = <<>>]

\* The bytes of a word, least significant byte first: C6 must tell it from
\* wordBytes.
wordBytes_littleEndian(w) ==
    IF Len(w) = 2
    THEN <<rorByte(w, 0), rorByte(w, 8), rorByte(w, 16), rorByte(w, 24)>>
    ELSE <<rorByte(w, 0),  rorByte(w, 8),  rorByte(w, 16), rorByte(w, 24),
           rorByte(w, 32), rorByte(w, 40), rorByte(w, 48), rorByte(w, 56)>>

\* The bytes of a word, most significant byte first: the inner loop
\* "for (j = dataSize - 1; j >= 0; --j) ret.emplace_back(ror<Byte>(i, j * 8))".
wordBytes(w) ==
    IF Len(w) = 2
    THEN <<rorByte(w, 24), rorByte(w, 16), rorByte(w, 8), rorByte(w, 0)>>
    ELSE <<rorByte(w, 56), rorByte(w, 48), rorByte(w, 40), rorByte(w, 32),
           rorByte(w, 24), rorByte(w, 16), rorByte(w, 8),  rorByte(w, 0)>>

\* toVector() returning the whole of m_h[3] in SHA2_512_224: C7 must tell
\* it from toVector.
toVector_untruncated(alg, self) ==
    LET h == self.m_h
    IN  IF alg = "SHA2_512_224"
        THEN wordBytes(h[1]) \o wordBytes(h[2]) \o wordBytes(h[3]) \o wordBytes(h[4])
        ELSE wordBytes(h[1]) \o wordBytes(h[2]) \o wordBytes(h[3]) \o wordBytes(h[4]) \o
             wordBytes(h[5]) \o wordBytes(h[6]) \o wordBytes(h[7]) \o wordBytes(h[8])

\* toVector()
toVector(alg, self) ==
    LET h == self.m_h
    IN  IF alg = "SHA2_512_224"
        THEN wordBytes(h[1]) \o wordBytes(h[2]) \o wordBytes(h[3]) \o
             <<rorByte(h[4], 56), rorByte(h[4], 48), rorByte(h[4], 40), rorByte(h[4], 32)>>
        ELSE wordBytes(h[1]) \o wordBytes(h[2]) \o wordBytes(h[3]) \o wordBytes(h[4]) \o
             wordBytes(h[5]) \o wordBytes(h[6]) \o wordBytes(h[7]) \o wordBytes(h[8])

HexDigits == <<"0", "1", "2", "3", "4", "5", "6", "7",
               "8", "9", "a", "b", "c", "d", "e", "f">>

\* snprintf(buf, sizeof(buf), "%02x", i)
hex02x(i) == HexDigits[(i \div 16) + 1] \o HexDigits[(i % 16) + 1]

RECURSIVE appendHex(_, _, _)
\* The loop of toString() over the bytes of v from index k on.
appendHex(ret, v, k) ==
    IF k > Len(v) THEN ret ELSE appendHex(ret \o hex02x(v[k]), v, k + 1)

\* toString()
toString(alg, self) == appendHex("", toVector(alg, self), 1)



(***************************************************************************)
(* TupleHash (src/tuple_hash.h).  The wrapped primitive m_cshake is not    *)
(* modelled: it is the record of the calls made to it since it was         *)
(* constructed or reset, each call with the bytes passed.                  *)
(***************************************************************************)
RECURSIVE stripLeadingZeros(_)
\* The bytes b without their leading zero bytes, one byte at least.
stripLeadingZeros(b) ==
    IF Len(b) > 1 /\ b[1] = 0 THEN stripLeadingZeros(Tail(b)) ELSE b

\* Chocobo1::CShake_Hash::leftEncode(value), left_encode of NIST SP 800-185:
\* the number n of bytes of value, then the n bytes, most significant first.
leftEncode(value) ==
    LET x == stripLeadingZeros(wordBytes(value))
    IN  <<Len(x)>> \o x

\* rightEncode(value)
rightEncode(value) ==
    LET ret == leftEncode(value)
        first == Head(ret)
    IN  Append(Tail(ret), first)

\* A 32-bit unsigned int converted to uint64_t.
toUint64(x) == <<0, 0>> \o x

\* TupleHash::addDataImpl(data): m_cshake.addData(data)
TupleHash_addDataImpl(self, data) ==
    [self EXCEPT !.m_cshake = Append(@, [call |-> "addData", data |-> data])]

\* nextData without the leftEncode prefix: C11 must tell it from
\* TupleHash_nextData.
TupleHash_nextData_noPrefix(self, inData) ==
    TupleHash_addDataImpl(self, inData)

\* TupleHash::nextData(inData); inData.size() * 8 is a size_t.
TupleHash_nextData(self, inData) ==
    TupleHash_addDataImpl(
        TupleHash_addDataImpl(self, leftEncode(Shl(U64(Len(inData)), 3))),
        inData)

\* TupleHash::finalize(); m_digestLength * 8 is an unsigned int.
TupleHash_finalize(self) ==
    [TupleHash_addDataImpl(self, rightEncode(toUint64(Shl(self.m_digestLength, 3))))
        EXCEPT !.m_cshake = Append(@, [call |-> "finalize", data |-> <<>>])]

\* TupleHash::reset(): m_cshake.reset()
TupleHash_reset(self) == [self EXCEPT !.m_cshake = <<>>]

\* TupleHash::TupleHash(digestLength, customize)
TupleHash_construct(digestLength) ==
    [m_cshake |-> <<>>, m_digestLength |-> digestLength]

(***************************************************************************)
(* The state: one hash object (SM3, SHA2_256 or SHA2_512_224) and one      *)
(* TupleHash object, each with the history of the calls made on it.        *)
(***************************************************************************)
VARIABLES
    alg,            \* the class of the hash object
    m_buffer,       \* std::vector<Byte> m_buffer
    m_sizeCounter,  \* uint64_t m_sizeCounter (Uint128 in SHA2_512_224)
    m_h,            \* uint32_t m_h[8], m_v[8] in SM3 (uint64_t m_h[8] in SHA2_512_224)
    compressed,     \* history: the blocks compressed since construction / reset()
    aligned,        \* history: no assertion of addDataImpl has failed
    absorbed,       \* history: the bytes passed to addData since construction / reset()
    finalized,      \* history: finalize() was called since construction / reset()
    misuse,         \* history: calls of addData or finalize made after finalize()
    nAdds,          \* history: calls of addData since construction / reset()
    lastOp,         \* the operation called last on the hash object
    ret,            \* what it returned, for toVector() and toString()
    m_cshake,       \* TupleHash: the calls made on Alg m_cshake
    m_digestLength, \* TupleHash: const unsigned int m_digestLength
    tuple,          \* history: the elements passed to nextData since construction / reset()
    tupleOps,       \* history: the operations called on the TupleHash object since then
    uint128,        \* a Uint128 object: the record of m_lo and m_hi
    uint128Before,  \* history: the object before the operator called last on it
    uint128Op,      \* history: the operator called last on it
    uint128Arg,     \* history: the uint64_t passed to that operator
    uint128Ops      \* history: the number of operators called on it

objVars   == <<m_buffer, m_sizeCounter, m_h>>
histVars  == <<compressed, aligned, absorbed, finalized, misuse, nAdds>>
hashVars  == <<alg, objVars, histVars, lastOp, ret>>
tupleVars == <<m_cshake, m_digestLength, tuple, tupleOps>>
uint128Vars == <<uint128, uint128Before, uint128Op, uint128Arg, uint128Ops>>
vars      == <<hashVars, tupleVars, uint128Vars>>

\* Bounds of the model.
MaxAdds     == 2    \* calls of addData between two resets
MaxBlocks   == 2    \* full blocks of input between two resets
MaxMisuse   == 1    \* calls of addData or finalize made after finalize()
MaxElements == 3    \* calls of nextData between two resets
MaxTupleOps == 5    \* calls on the TupleHash object between two resets
MaxUint128Ops == 2  \* operators called on the Uint128 object

\* The hash object as a record, and the assignment of a record to it.
Self ==
    [m_buffer |-> m_buffer, m_sizeCounter |-> m_sizeCounter, m_h |-> m_h,
     compressed |-> compressed, aligned |-> aligned]

Becomes(obj) ==
    /\ m_buffer' = obj.m_buffer
    /\ m_sizeCounter' = obj.m_sizeCounter
    /\ m_h' = obj.m_h
    /\ compressed' = obj.compressed
    /\ aligned' = obj.aligned

\* The TupleHash object as a record.
TupleSelf == [m_cshake |-> m_cshake, m_digestLength |-> m_digestLength]

\* The input: the caller passes the bytes of the message 'a', 'b', 'c', ...
\* in order, so that the byte at each position of the input is known and no
\* two positions of a block hold the same byte.
MessageByte(pos) == (97 + pos) % 251

\* The n bytes of the message from position off on.
Message(off, n) ==
    SubSeq([i \in 1..(off + n) |-> MessageByte(i - 1)], off + 1, off + n)

\* The sizes of the spans the caller passes to addData: nothing, a few
\* bytes, the tail that with the 0x80 byte and the size fills a block
\* exactly, a block less one byte, a block, and two blocks and a byte.
SpanSizes(a) ==
    {0, 1, 3, BLOCK_SIZE(a) - SizeFieldBytes(a) - 1, BLOCK_SIZE(a) - 1,
     BLOCK_SIZE(a), (2 * BLOCK_SIZE(a)) + 1}

\* The elements the caller passes to nextData, and the digest lengths (in
\* bytes, as 32-bit words) a TupleHash object is constructed with: 32, 64
\* and 2^29.
Elements == {<<>>, <<97>>, <<97, 98>>, <<98>>, Message(0, 32)}
DigestLengths == {<<0, 32>>, <<0, 64>>, <<8192, 0>>}

HashInit(a) ==
    /\ alg = a
    /\ m_buffer = construct(alg).m_buffer
    /\ m_sizeCounter = construct(alg).m_sizeCounter
    /\ m_h = construct(alg).m_h
    /\ compressed = <<>>
    /\ aligned = TRUE
    /\ absorbed = <<>>
    /\ finalized = FALSE
    /\ misuse = 0
    /\ nAdds = 0
    /\ lastOp = "construct"
    /\ ret = <<>>

TupleInit(digestLength) ==
    /\ m_digestLength = digestLength
    /\ m_cshake = TupleHash_construct(m_digestLength).m_cshake
    /\ tuple = <<>>
    /\ tupleOps = <<>>

\* addData(inData), with inData the next n bytes of the message
AddData(n) ==
    /\ nAdds < MaxAdds
    /\ Len(absorbed) + n < (MaxBlocks + 1) * BLOCK_SIZE(alg)
    /\ finalized => misuse < MaxMisuse
    /\ Becomes(addData(alg, Self, Message(Len(absorbed), n)))
    /\ absorbed' = absorbed \o Message(Len(absorbed), n)
    /\ misuse' = IF finalized THEN misuse + 1 ELSE misuse
    /\ nAdds' = nAdds + 1
    /\ lastOp' = "addData"
    /\ ret' = <<>>
    /\ UNCHANGED <<alg, finalized, tupleVars, uint128Vars>>

\* finalize()
Finalize ==
    /\ finalized => misuse < MaxMisuse
    /\ Becomes(finalize(alg, Self))
    /\ finalized' = TRUE
    /\ misuse' = IF finalized THEN misuse + 1 ELSE misuse
    /\ lastOp' = "finalize"
    /\ ret' = <<>>
    /\ UNCHANGED <<alg, absorbed, nAdds, tupleVars, uint128Vars>>

\* reset()
Reset ==
    /\ lastOp # "construct"
    /\ Becomes([reset(alg, Self) EXCEPT !.compressed = <<>>])
    /\ absorbed' = <<>>
    /\ finalized' = FALSE
    /\ misuse' = 0
    /\ nAdds' = 0
    /\ lastOp' = "reset"
    /\ ret' = <<>>
    /\ UNCHANGED <<alg, tupleVars, uint128Vars>>

\* toVector() (a const member function)
ToVector ==
    /\ ret' = toVector(alg, Self)
    /\ lastOp' = "toVector"
    /\ UNCHANGED <<alg, objVars, histVars, tupleVars, uint128Vars>>

\* toString() (a const member function)
ToString ==
    /\ ret' = toString(alg, Self)
    /\ lastOp' = "toString"
    /\ UNCHANGED <<alg, objVars, histVars, tupleVars, uint128Vars>>

\* TupleHash::nextData(inData)
NextData(inData) ==
    /\ Len(tuple) < MaxElements
    /\ Len(tupleOps) < MaxTupleOps
    /\ m_cshake' = TupleHash_nextData(TupleSelf, inData).m_cshake
    /\ tuple' = Append(tuple, inData)
    /\ tupleOps' = Append(tupleOps, "nextData")
    /\ UNCHANGED <<m_digestLength, hashVars, uint128Vars>>

\* TupleHash::finalize()
TupleFinalize ==
    /\ Len(tupleOps) < MaxTupleOps
    /\ m_cshake' = TupleHash_finalize(TupleSelf).m_cshake
    /\ tupleOps' = Append(tupleOps, "finalize")
    /\ UNCHANGED <<m_digestLength, tuple, hashVars, uint128Vars>>

\* TupleHash::reset()
TupleReset ==
    /\ tupleOps # <<>>
    /\ m_cshake' = TupleHash_reset(TupleSelf).m_cshake
    /\ tuple' = <<>>
    /\ tupleOps' = <<>>
    /\ UNCHANGED <<m_digestLength, hashVars, uint128Vars>>

\* A Uint128 object of value u on which no operator has been called yet.
Uint128Init(u) ==
    /\ uint128 = u
    /\ uint128Before = u
    /\ uint128Op = "construct"
    /\ uint128Arg = U64(0)
    /\ uint128Ops = 0

\* Uint128::operator+=(n)
Uint128PlusEq(n) ==
    /\ uint128Ops < MaxUint128Ops
    /\ uint128' = Uint128_plus(uint128, n)
    /\ uint128Before' = uint128
    /\ uint128Op' = "+="
    /\ uint128Arg' = n
    /\ uint128Ops' = uint128Ops + 1
    /\ UNCHANGED <<hashVars, tupleVars>>

\* Uint128::operator*(8)
Uint128Times8 ==
    /\ uint128Ops < MaxUint128Ops
    /\ uint128' = Uint128_times8(uint128)
    /\ uint128Before' = uint128
    /\ uint128Op' = "*"
    /\ uint128Arg' = U64(8)
    /\ uint128Ops' = uint128Ops + 1
    /\ UNCHANGED <<hashVars, tupleVars>>

\* Uint128::operator=(n)
Uint128Assign(n) ==
    /\ uint128Ops < MaxUint128Ops
    /\ uint128' = Uint128_assign(n)
    /\ uint128Before' = uint128
    /\ uint128Op' = "="
    /\ uint128Arg' = n
    /\ uint128Ops' = uint128Ops + 1
    /\ UNCHANGED <<hashVars, tupleVars>>

\* The calls on the hash object; the TupleHash object and the Uint128
\* object are not used.
Init ==
    /\ \E a \in Algorithms : HashInit(a)
    /\ TupleInit(<<0, 32>>)
    /\ Uint128Init(Uint128_construct)

Next ==
    \/ \E n \in SpanSizes(alg) : AddData(n)
    \/ Finalize
    \/ Reset
    \/ ToVector
    \/ ToString

Spec == Init /\ [][Next]_vars

\* The calls on the TupleHash object; the hash object is not used.
InitTuple ==
    /\ \E d \in DigestLengths : TupleInit(d)
    /\ HashInit("SM3")
    /\ Uint128Init(Uint128_construct)

NextTuple ==
    \/ \E inData \in Elements : NextData(inData)
    \/ TupleFinalize
    \/ TupleReset

SpecTuple == InitTuple /\ [][NextTuple]_vars

\* The 64-bit values that the halves of a Uint128 object and the arguments
\* of its operators are drawn from: 0, 1, 2^61 - 1, 2^61, 2^63 + 2^61 + 1,
\* 0x0123456789abcdef and 2^64 - 1.
Uint64Values ==
    {<<0, 0, 0, 0>>, <<0, 0, 0, 1>>, <<8191, 65535, 65535, 65535>>,
     <<8192, 0, 0, 0>>, <<40960, 0, 0, 1>>, <<291, 17767, 35243, 52719>>,
     <<65535, 65535, 65535, 65535>>}

\* The operators of a Uint128 object, from any value of its two halves;
\* the hash object and the TupleHash object are not used.
InitUint128 ==
    /\ \E lo \in Uint64Values, hi \in Uint64Values :
           Uint128Init([m_lo |-> lo, m_hi |-> hi])
    /\ HashInit("SM3")
    /\ TupleInit(<<0, 32>>)

NextUint128 ==
    \/ \E n \in Uint64Values : Uint128PlusEq(n)
    \/ Uint128Times8
    \/ \E n \in Uint64Values : Uint128Assign(n)

SpecUint128 == InitUint128 /\ [][NextUint128]_vars

(***************************************************************************)
(* What the claims are stated with.                                        *)
(***************************************************************************)
RECURSIVE Flatten(_)
\* The concatenation of a sequence of byte strings.
Flatten(ss) == IF ss = <<>> THEN <<>> ELSE Head(ss) \o Flatten(Tail(ss))

RECURSIVE NatBytes(_, _)
\* The natural number n as len bytes, most significant byte first.
NatBytes(n, len) ==
    IF len = 0 THEN <<>> ELSE NatBytes(n \div 256, len - 1) \o <<n % 256>>

\* The bytes of a word of 16-bit limbs, most significant byte first.
BigEndian(w) ==
    SubSeq([i \in 1..(2 * Len(w)) |->
               IF i % 2 = 1 THEN w[(i + 1) \div 2] \div 256 ELSE w[i \div 2] % 256],
           1, 2 * Len(w))

\* The hash object once a fresh instance has absorbed M in one addData call.
OneCall(a, M) == addData(a, construct(a), M)

\* C1: chunking invariance.  However the bytes absorbed so far were split
\* into addData calls (empty ones included), the blocks handed to the
\* compression step, the object, and after finalize() the digest, are those
\* of a fresh instance that absorbs the same bytes in one addData call.
C1_ChunkingInvariance ==
    misuse = 0 =>
        LET whole == IF finalized THEN finalize(alg, OneCall(alg, absorbed))
                     ELSE OneCall(alg, absorbed)
        IN  /\ compressed = whole.compressed
            /\ m_buffer = whole.m_buffer
            /\ m_sizeCounter = whole.m_sizeCounter
            /\ m_h = whole.m_h
            /\ toVector(alg, Self) = toVector(alg, whole)

\* Two addData calls, neither ending on a block boundary, that together
\* pass more than two blocks, followed by finalize().
C1_Witness ==
    /\ nAdds = 2
    /\ Len(absorbed) = (2 * BLOCK_SIZE(alg)) + 4
    /\ finalized
    /\ misuse = 0
    /\ Len(compressed) = 3

\* The blocks a step has handed to the compression step, as one byte string.
CompressedByStep == Flatten(SubSeq(compressed', Len(compressed) + 1, Len(compressed')))

\* C2: padding layout.  finalize() called with a pending tail of t bytes
\* compresses tail || 0x80 || k zero bytes || L bytes, with k the smallest
\* natural number such that t + 1 + k = BLOCK_SIZE - L modulo BLOCK_SIZE: one
\* block if t + 1 + L <= BLOCK_SIZE and two blocks otherwise.
C2_PaddingLayout ==
    [][lastOp' = "finalize" =>
        LET B == BLOCK_SIZE(alg)
            L == SizeFieldBytes(alg)
            t == Len(m_buffer)
            k == ((2 * B) - L - t - 1) % B
        IN  /\ Len(CompressedByStep) = t + 1 + k + L
            /\ SubSeq(CompressedByStep, 1, t + 1 + k) = m_buffer \o <<128>> \o Zeros(k)
            /\ Len(CompressedByStep) = IF t + 1 + L <= B THEN B ELSE 2 * B]_vars

\* C3: block-boundary exactness.  When the bytes absorbed are a whole
\* number of blocks, addData has compressed exactly that number of blocks
\* and holds no pending byte, and finalize() compresses exactly one block
\* more: 0x80, zeros, and the size in bits.
C3_BlockBoundary ==
    (misuse = 0 /\ Len(absorbed) % BLOCK_SIZE(alg) = 0) =>
        LET B == BLOCK_SIZE(alg)
            L == SizeFieldBytes(alg)
            n == Len(absorbed) \div B
        IN  /\ SubSeq(compressed, 1, n) = [i \in 1..n |-> BlockOf(alg, absorbed, i)]
            /\ ~finalized => (Len(compressed) = n /\ m_buffer = <<>>)
            /\ finalized =>
                 /\ Len(compressed) = n + 1
                 /\ compressed[n + 1] =
                        <<128>> \o Zeros(B - 1 - L) \o NatBytes(8 * Len(absorbed), L)

\* One block absorbed in two addData calls, then finalize().
C3_Witness ==
    /\ nAdds = 2
    /\ Len(absorbed) = BLOCK_SIZE(alg)
    /\ finalized
    /\ misuse = 0
    /\ lastOp = "finalize"

\* C4: reset equivalence.  Whatever the state reset() is called in, the
\* object is then as freshly constructed: empty buffer, zero counter, the
\* initial chaining value; and absorbing "abc" and finalizing gives the
\* digest a fresh instance gives.
C4_ResetEquivalence ==
    lastOp = "reset" =>
        /\ m_buffer = <<>>
        /\ m_sizeCounter = construct(alg).m_sizeCounter
        /\ m_h = initialHash(alg)
        /\ Self = construct(alg)
        /\ toVector(alg, finalize(alg, addData(alg, Self, <<97, 98, 99>>)))
             = toVector(alg, finalize(alg, OneCall(alg, <<97, 98, 99>>)))

\* reset() has been called on an object that had absorbed or finalized.
C4_Witness == lastOp = "reset" /\ aligned /\ absorbed = <<>> /\ ~finalized

\* C5 as stated: a call of addData made after finalize(), with no reset()
\* in between, is rejected, so that it changes none of the buffer, the byte
\* counter and the chaining state.
C5_RejectedAfterFinalize ==
    [][(finalized /\ lastOp' = "addData") =>
          UNCHANGED <<m_buffer, m_sizeCounter, m_h>>]_vars

\* C5, amended: a call of addData made after finalize(), with no reset() in
\* between, is not checked.  No assertion fires and the bytes are absorbed
\* as by any other call: whole blocks of pending buffer || input are
\* compressed into the chaining state and counted, the rest is left in the
\* pending buffer.
C5_AbsorbedAfterFinalize ==
    [][(finalized /\ lastOp' = "addData") =>
        LET B == BLOCK_SIZE(alg)
            all == m_buffer \o SubSeq(absorbed', Len(absorbed) + 1, Len(absorbed'))
            n == Len(all) \div B
        IN  /\ aligned' = aligned
            /\ m_buffer' = SubSeq(all, (n * B) + 1, Len(all))
            /\ compressed' = compressed \o [i \in 1..n |-> BlockOf(alg, all, i)]
            /\ m_sizeCounter' = counterPlus(alg, m_sizeCounter, n * B)
            /\ m_h' = blockLoop(alg, m_h, all, 0, n)]_vars

\* addData was called after finalize() and has left bytes in the buffer.
C5_Witness ==
    /\ finalized
    /\ misuse = 1
    /\ lastOp = "addData"
    /\ m_buffer # <<>>
    /\ aligned

\* The number of bytes of a digest.
DigestBytes(a) == IF a = "SHA2_512_224" THEN 28 ELSE 32

\* The chaining state that results from compressing the blocks, in order,
\* into the initial chaining value.
ChainingStateOf(a, blocks) ==
    blockLoop(a, initialHash(a), Flatten(blocks), 0, Len(blocks))

\* The words of a chaining state as bytes, each word most significant byte
\* first, cut to the length of the digest.
Serialized(a, h) ==
    SubSeq(Flatten([i \in 1..8 |-> BigEndian(h[i])]), 1, DigestBytes(a))

RECURSIVE HexOf(_)
\* Bytes as lowercase hexadecimal text.
HexOf(bytes) ==
    IF bytes = <<>> THEN ""
    ELSE HexDigits[(Head(bytes) \div 16) + 1] \o HexDigits[(Head(bytes) % 16) + 1]
             \o HexOf(Tail(bytes))

\* C6: digest reads are pure and expose the current chaining state.
\* toVector() and toString() change nothing of the object, before and after
\* finalize(); before finalize() they return the big-endian bytes (as hex
\* text for toString) of the chaining state, which is the result of the
\* blocks compressed so far whatever bytes are pending.
C6_ReadsArePure ==
    [][lastOp' \in {"toVector", "toString"} =>
        /\ UNCHANGED <<objVars, histVars>>
        /\ ~finalized =>
             LET bytes == Serialized(alg, ChainingStateOf(alg, compressed))
             IN  ret' = IF lastOp' = "toVector" THEN bytes ELSE HexOf(bytes)]_vars

\* toVector() was called before finalize() on an object that has compressed
\* blocks and holds pending bytes.
C6_Witness ==
    /\ lastOp = "toVector"
    /\ ~finalized
    /\ compressed # <<>>
    /\ m_buffer # <<>>
    /\ Len(ret) = DigestBytes(alg)

\* C7: SHA2-512-224 output truncation.  In every state toVector() returns
\* 28 bytes: the bytes of the words 0, 1 and 2 of the chaining state, most
\* significant first, then the 4 most significant bytes of word 3.  The
\* other bits of the chaining state do not influence it.
C7_Truncation ==
    alg = "SHA2_512_224" =>
        LET v == toVector(alg, Self)
            masked == <<m_h[1], m_h[2], m_h[3], <<m_h[4][1], m_h[4][2], 0, 0>>,
                        U64(0), U64(0), U64(0), U64(0)>>
        IN  /\ Len(v) = 28
            /\ v = BigEndian(m_h[1]) \o BigEndian(m_h[2]) \o BigEndian(m_h[3])
                     \o SubSeq(BigEndian(m_h[4]), 1, 4)
            /\ v = toVector(alg, [Self EXCEPT !.m_h = masked])
            /\ lastOp = "toVector" => ret = v

\* toVector() was called on a SHA2_512_224 object after finalize().
C7_Witness ==
    /\ alg = "SHA2_512_224"
    /\ lastOp = "toVector"
    /\ finalized
    /\ absorbed # <<>>
    /\ Len(ret) = 28

\* C8: known answer of SHA2-256.  After addData of the 3 bytes "abc" and
\* finalize(), toString() returns
\* ba7816bf8f01cfea414140de5dae2223b00361a396177a9cb410ff61f20015ad.
C8_KnownAnswerSHA2_256 ==
    (/\ alg = "SHA2_256"
     /\ absorbed = <<97, 98, 99>>
     /\ nAdds = 1
     /\ finalized
     /\ misuse = 0
     /\ lastOp = "toString")
        => ret = "ba7816bf8f01cfea414140de5dae2223b00361a396177a9cb410ff61f20015ad"

\* toString() was called on a SHA2_256 object that absorbed "abc" and was
\* finalized.
C8_Witness ==
    /\ alg = "SHA2_256"
    /\ absorbed = <<97, 98, 99>>
    /\ nAdds = 1
    /\ finalized
    /\ misuse = 0
    /\ lastOp = "toString"
    /\ Len(ret) = 64

\* C9: known answer of SM3.  After addData of the 3 bytes "abc" and
\* finalize(), toString() returns
\* 66c7f0f462eeedd9d1f2d46bdc10e4e24167c4875cf2f7a2297da02b8f4ba8e0.
C9_KnownAnswerSM3 ==
    (/\ alg = "SM3"
     /\ absorbed = <<97, 98, 99>>
     /\ nAdds = 1
     /\ finalized
     /\ misuse = 0
     /\ lastOp = "toString")
        => ret = "66c7f0f462eeedd9d1f2d46bdc10e4e24167c4875cf2f7a2297da02b8f4ba8e0"

\* toString() was called on an SM3 object that absorbed "abc" and was
\* finalized.
C9_Witness ==
    /\ alg = "SM3"
    /\ absorbed = <<97, 98, 99>>
    /\ nAdds = 1
    /\ finalized
    /\ misuse = 0
    /\ lastOp = "toString"
    /\ Len(ret) = 64

RECURSIVE FramedElements(_)
\* leftEncode(8 * len(e1)) || e1 || ... || leftEncode(8 * len(en)) || en
FramedElements(t) ==
    IF t = <<>> THEN <<>>
    ELSE leftEncode(U64(8 * Len(Head(t)))) \o Head(t) \o FramedElements(Tail(t))

\* The bytes passed to the wrapped primitive by its addData calls, in order.
CshakeStream ==
    Flatten([i \in 1..Len(m_cshake) |-> m_cshake[i].data])

\* 8 * D for the digest length D of the TupleHash object, as a 64-bit value.
DigestBits == Shl(toUint64(m_digestLength), 3)

\* C10: TupleHash framing.  After n nextData calls followed by finalize()
\* on an instance of digest length D bytes, the bytes passed to the wrapped
\* primitive are leftEncode(8 * len(e1)) || e1 || ... || leftEncode(8 *
\* len(en)) || en || rightEncode(8 * D), the finalize of the primitive is
\* called once, after them, and rightEncode(v) is leftEncode(v) with its
\* first byte moved to the end.
C10_TupleFraming ==
    tupleOps = [i \in 1..Len(tuple) |-> "nextData"] \o <<"finalize">> =>
        /\ CshakeStream = FramedElements(tuple) \o rightEncode(DigestBits)
        /\ m_cshake[Len(m_cshake)].call = "finalize"
        /\ \A i \in 1..(Len(m_cshake) - 1) : m_cshake[i].call = "addData"
        /\ rightEncode(DigestBits)
             = Tail(leftEncode(DigestBits)) \o <<Head(leftEncode(DigestBits))>>

RECURSIVE AfterTuple(_, _)
\* The TupleHash object self after one nextData call for each element of t.
AfterTuple(self, t) ==
    IF t = <<>> THEN self
    ELSE AfterTuple(TupleHash_nextData(self, Head(t)), Tail(t))

\* The bytes that an instance of digest length d passes to the wrapped
\* primitive for the tuple t: nextData for each element, then finalize().
StreamOf(t, d) ==
    LET calls == TupleHash_finalize(AfterTuple(TupleHash_construct(d), t)).m_cshake
    IN  Flatten([i \in 1..Len(calls) |-> calls[i].data])

RECURSIVE BytesNat(_)
\* The natural number that the bytes b are, most significant byte first.
BytesNat(b) ==
    IF b = <<>> THEN 0 ELSE (256 * BytesNat(SubSeq(b, 1, Len(b) - 1))) + b[Len(b)]

\* What is read where the bytes are not a frame: no element is this.
Malformed == <<-1>>

RECURSIVE ReadFrames(_)
\* The elements read from the bytes s frame by frame: a byte n, the bit
\* length of the element in n bytes, the element.  Bytes that are not a
\* sequence of such frames give a tuple that ends with Malformed.
ReadFrames(s) ==
    IF s = <<>> THEN <<>>
    ELSE LET n == s[1]
             size == IF n \in 1..3 /\ n + 1 <= Len(s)
                     THEN BytesNat(SubSeq(s, 2, n + 1)) \div 8 ELSE -1
         IN  IF size < 0 \/ n + 1 + size > Len(s)
             THEN <<Malformed>>
             ELSE <<SubSeq(s, n + 2, n + 1 + size)>>
                      \o ReadFrames(SubSeq(s, n + 2 + size, Len(s)))

\* The tuple read back from the bytes s passed to the wrapped primitive:
\* the last byte m says that the m bytes before it and itself are the
\* suffix of finalize(), and the bytes before the suffix are frames.
ReadTuple(s) ==
    IF s = <<>> \/ s[Len(s)] + 1 > Len(s) THEN <<Malformed>>
    ELSE ReadFrames(SubSeq(s, 1, Len(s) - (s[Len(s)] + 1)))

\* C11: order-sensitivity and unambiguous framing.  Once the elements of a
\* tuple have been passed by nextData and finalize() has been called, the
\* bytes passed to the wrapped primitive determine the tuple, read back
\* frame by frame, so that no two different tuples (other order, other
\* count, other split of the same bytes) give the same bytes; and for a
\* tuple (A, B) with A # B they differ from the bytes for (B, A) and from
\* the bytes for the single element A || B.
C11_UnambiguousFraming ==
    tupleOps = [i \in 1..Len(tuple) |-> "nextData"] \o <<"finalize">> =>
        /\ ReadTuple(CshakeStream) = tuple
        /\ StreamOf(tuple, m_digestLength) = CshakeStream
        /\ Len(tuple) = 2 /\ tuple[1] # tuple[2] =>
               /\ StreamOf(<<tuple[2], tuple[1]>>, m_digestLength) # CshakeStream
               /\ StreamOf(<<tuple[1] \o tuple[2]>>, m_digestLength) # CshakeStream

\* (A, B) with A # B has been hashed, and so can (A || B) be.
C11_Witness ==
    /\ tuple = <<(<<97>>), (<<98>>)>>
    /\ tupleOps = <<"nextData", "nextData", "finalize">>
    /\ tuple[1] \o tuple[2] \in Elements
    /\ ReadTuple(CshakeStream) = tuple

\* A 64-bit word below 2^30 as a natural number, -1 for any other word.
WordNat(w) ==
    IF w[1] = 0 /\ w[2] = 0 /\ w[3] < 16384 THEN (w[3] * 65536) + w[4] ELSE -1

\* The value of m_sizeCounter as a natural number (-1 when it is 2^30 or more).
SizeCounter ==
    IF alg = "SHA2_512_224"
    THEN IF m_sizeCounter.m_hi = U64(0) THEN WordNat(m_sizeCounter.m_lo) ELSE -1
    ELSE WordNat(m_sizeCounter)

\* The bytes of the buffer that the first finalize() since the last reset
\* compressed: the blocks compressed so far less the full blocks of input.
PaddedSize ==
    (BLOCK_SIZE(alg) * Len(compressed))
        - (Len(absorbed) - (Len(absorbed) % BLOCK_SIZE(alg)))

\* C12 as stated: after every public operation m_sizeCounter is the number
\* of message bytes passed to addData since construction or the last
\* reset, padding excluded.
C12_CounterIsTotal ==
    misuse = 0 => SizeCounter = Len(absorbed)

\* C12, amended: m_sizeCounter counts the bytes handed to addDataImpl.
\* After addData calls it is the number of bytes passed less the bytes
\* pending in m_buffer; after reset it is 0; after finalize() it is the
\* number of bytes passed (8 times that number in SHA2_512_224, where
\* "m_sizeCounter * 8" scales the counter itself) plus the size of the
\* padded buffer, padding included.
C12_CounterIsCompressed ==
    misuse = 0 =>
        IF finalized
        THEN /\ SizeCounter =
                   (IF alg = "SHA2_512_224" THEN 8 ELSE 1) * Len(absorbed) + PaddedSize
             /\ PaddedSize >= (Len(absorbed) % BLOCK_SIZE(alg)) + 1 + SizeFieldBytes(alg)
        ELSE /\ SizeCounter = Len(absorbed) - Len(m_buffer)
             /\ lastOp = "reset" => SizeCounter = 0

\* finalize() has been called on two chunks that left a tail pending, and
\* the counter is beyond the number of bytes passed.
C12_Witness ==
    /\ finalized
    /\ misuse = 0
    /\ nAdds = 2
    /\ (Len(absorbed) % BLOCK_SIZE(alg)) # 0
    /\ SizeCounter > Len(absorbed)

\* The last block that was compressed.
LastBlock == compressed[Len(compressed)]

\* C13: length field.  The last L bytes of the last block that finalize()
\* compresses (L = 8, and 16 in SHA2_512_224) are 8 times the number of
\* message bytes passed to addData since the last reset, most significant
\* byte first, however the bytes were split into calls and whether the
\* padding took one block or two.
C13_LengthField ==
    finalized /\ misuse = 0 =>
        /\ Len(LastBlock) = BLOCK_SIZE(alg)
        /\ SubSeq(LastBlock, BLOCK_SIZE(alg) - SizeFieldBytes(alg) + 1, BLOCK_SIZE(alg))
             = NatBytes(8 * Len(absorbed), SizeFieldBytes(alg))

\* finalize() has padded a tail of two chunks into two blocks.
C13_Witness ==
    /\ finalized
    /\ misuse = 0
    /\ nAdds = 2
    /\ Len(absorbed) > BLOCK_SIZE(alg)
    /\ PaddedSize = 2 * BLOCK_SIZE(alg)
    /\ LastBlock[BLOCK_SIZE(alg)] = (8 * Len(absorbed)) % 256

\* What m_buffer holds between two operations: less than a block, and
\* nothing once the constructor, finalize() or reset() has returned.
BufferAtRest ==
    /\ Len(m_buffer) < BLOCK_SIZE(alg)
    /\ lastOp \in {"construct", "finalize", "reset"} => m_buffer = <<>>

\* The most that m_buffer holds while a step runs: the topped-up buffer in
\* addData (of the bytes that the step appends to absorbed), the padded
\* buffer in finalize().
BufferDuringStep ==
    CASE lastOp' = "addData" ->
             IF m_buffer = <<>> THEN Len(m_buffer')
             ELSE Len(toppedUp(alg, m_buffer,
                               SubSeq(absorbed', Len(absorbed) + 1, Len(absorbed'))))
      [] lastOp' = "finalize" ->
             Len(paddedBuffer(alg, m_buffer,
                              counterPlus(alg, m_sizeCounter, Len(m_buffer))))
      [] OTHER -> Len(m_buffer)

\* C14: bounds of the pending buffer.  After the constructor and after
\* every operation m_buffer holds fewer than BLOCK_SIZE bytes, none after
\* finalize() and reset(); while an operation runs, the padding step of
\* finalize() included, it holds at most 2 * BLOCK_SIZE bytes.
C14_BufferBounds ==
    /\ []BufferAtRest
    /\ [][BufferDuringStep <= 2 * BLOCK_SIZE(alg)]_vars

\* finalize() has padded a tail into two blocks, and the buffer is empty.
C14_Witness ==
    /\ lastOp = "finalize"
    /\ misuse = 0
    /\ PaddedSize = 2 * BLOCK_SIZE(alg)
    /\ Len(absorbed) % BLOCK_SIZE(alg) = BLOCK_SIZE(alg) - 1
    /\ m_buffer = <<>>

\* C15: absorb accounting.  After addData calls since construction or the
\* last reset, and before finalize(), m_sizeCounter is the number of bytes
\* compressed, a multiple of BLOCK_SIZE; with the size of m_buffer it makes
\* the number of bytes passed to addData; and the blocks compressed, in
\* order, followed by m_buffer are the bytes passed, in order.
C15_AbsorbAccounting ==
    ~finalized =>
        /\ \A i \in 1..Len(compressed) : Len(compressed[i]) = BLOCK_SIZE(alg)
        /\ SizeCounter = BLOCK_SIZE(alg) * Len(compressed)
        /\ SizeCounter + Len(m_buffer) = Len(absorbed)
        /\ Flatten(compressed) \o m_buffer = absorbed

\* Three bytes, then two blocks and a byte: the second call tops the
\* buffer up, compresses it and a block of its own, and stashes four bytes.
C15_Witness ==
    /\ ~finalized
    /\ nAdds = 2
    /\ Len(absorbed) = (2 * BLOCK_SIZE(alg)) + 4
    /\ Len(compressed) = 2
    /\ Len(m_buffer) = 4

\* C17: the assertion of addDataImpl.  Whatever the order of the calls of
\* addData (of any size), finalize() and reset(), finalize() twice and
\* addData after finalize() included, every call of addDataImpl so far was
\* passed a multiple of BLOCK_SIZE bytes, so that each block it compressed
\* is a whole block.
C17_AssertionHolds ==
    /\ aligned
    /\ \A i \in 1..Len(compressed) : Len(compressed[i]) = BLOCK_SIZE(alg)

\* addData has compressed blocks after finalize() without a reset between.
C17_Witness ==
    /\ finalized
    /\ misuse = 1
    /\ lastOp = "addData"
    /\ Len(compressed) >= 3
    /\ m_buffer # <<>>

\* The 128-bit number hi * 2^64 + lo of a Uint128 object, as its eight
\* digits in base 65536, most significant first.
Digits128(u) == u.m_hi \o u.m_lo

RECURSIVE DigitsPlus(_, _, _)
\* (x + y + carry) mod 65536^Len(x), for numbers x and y of as many digits.
DigitsPlus(x, y, carry) ==
    IF x = <<>> THEN <<>>
    ELSE LET sum == x[Len(x)] + y[Len(y)] + carry
         IN  DigitsPlus(SubSeq(x, 1, Len(x) - 1), SubSeq(y, 1, Len(y) - 1),
                        sum \div 65536) \o <<sum % 65536>>

RECURSIVE DigitsTimes(_, _, _)
\* (x * k + carry) mod 65536^Len(x), for a number x of digits and a small k.
DigitsTimes(x, k, carry) ==
    IF x = <<>> THEN <<>>
    ELSE LET product == (x[Len(x)] * k) + carry
         IN  DigitsTimes(SubSeq(x, 1, Len(x) - 1), k, product \div 65536)
                 \o <<product % 65536>>

\* C16: arithmetic of the 128-bit counter.  From every value (hi, lo),
\* operator+=(n) gives (hi * 2^64 + lo + n) mod 2^128, the carry out of the
\* low half added to the high half, and operator*(8) gives
\* ((hi * 2^64 + lo) * 8) mod 2^128, the top three bits of the low half
\* moved into the bottom of the high half.
C16_Uint128Arithmetic ==
    /\ uint128Op = "+=" =>
           Digits128(uint128)
             = DigitsPlus(Digits128(uint128Before), U64(0) \o uint128Arg, 0)
    /\ uint128Op = "*" =>
           /\ Digits128(uint128) = DigitsTimes(Digits128(uint128Before), 8, 0)
           /\ uint128.m_hi[4] % 8 = uint128Before.m_lo[1] \div 8192

\* operator+= has carried out of the low half into a high half that was
\* not zero.
C16_Witness ==
    /\ uint128Op = "+="
    /\ Less(uint128.m_lo, uint128Before.m_lo)
    /\ uint128Before.m_hi # U64(0)
    /\ uint128.m_hi # uint128Before.m_hi
=============================================================================
